---- MODULE Spec2Model ----
(***************************************************************************)
(* Model of the authenticated session engine of librcekunit:               *)
(*   - CacheManager (src/api/auth/utils/cache.rs): the session file        *)
(*   - cookie codec (src/api/auth/utils/cookies.rs)                        *)
(*   - token extractor (src/api/auth/utils/token.rs)                       *)
(*   - LoginClient (src/api/auth/loging.rs)                                *)
(*   - LogoutClient (src/api/auth/logout.rs)                               *)
(*   - the gate check of the request builders (src/api/dashboard/*.rs)     *)
(*   - CekUnitClient::logout (src/client.rs)                               *)
(*   - EnvConfig::load (src/handler/env.rs)                                *)
(* Strings whose content the code inspects (Set-Cookie values, attribute   *)
(* values, cookie names and values, tokens) are sequences of one-character *)
(* strings.  The server and the filesystem are the environment: every      *)
(* response and every I/O outcome is chosen nondeterministically.          *)
(* Spec is the client as a whole, SpecEngine the same without saves made   *)
(* by the caller, SpecStore the CacheManager on its own (save in its two   *)
(* steps, crash, concurrent load), SpecCodec the two parsers on inputs     *)
(* drawn from bounded sets, SpecEnv EnvConfig::load (src/handler/env.rs)   *)
(* on bounded environments, SpecLogin the login alone on configurations    *)
(* the caller hands in, SpecPeer login and logout beside a second client   *)
(* that saves to the same file.                                            *)
(***************************************************************************)
EXTENDS Integers, Sequences, FiniteSets, TLC

(***************************************************************************)
(* Bounds of the model (not program constants).                            *)
(***************************************************************************)
\* largest value of the wall clock, in seconds
MaxClock == 1

(***************************************************************************)
(* Program constants.                                                      *)
(***************************************************************************)
MAX_RETRIES == 3

INITIAL_RETRY_DELAY == 100

(***************************************************************************)
(* Strings as sequences of characters.                                     *)
(***************************************************************************)
Range(s) == {s[i] : i \in 1..Len(s)}

RECURSIVE TrimStart(_)
TrimStart(s) ==
    IF s = <<>> THEN s
    ELSE IF Head(s) = " " THEN TrimStart(Tail(s)) ELSE s

RECURSIVE TrimEnd(_)
TrimEnd(s) ==
    IF s = <<>> THEN s
    ELSE IF s[Len(s)] = " " THEN TrimEnd(SubSeq(s, 1, Len(s) - 1)) ELSE s

\* str::trim
Trim(s) == TrimEnd(TrimStart(s))

\* index of the first occurrence of character c in s, 0 when there is none
IndexOf(s, c) ==
    IF c \in Range(s) THEN CHOOSE i \in 1..Len(s) : s[i] = c /\ \A j \in 1..(i - 1) : s[j] # c
    ELSE 0

\* the part of s before the first c (all of s when c does not occur)
Before(s, c) == IF IndexOf(s, c) = 0 THEN s ELSE SubSeq(s, 1, IndexOf(s, c) - 1)

\* the part of s after the first c (only meaningful when c occurs)
After(s, c) == SubSeq(s, IndexOf(s, c) + 1, Len(s))

RECURSIVE Pow2(_)
Pow2(n) == IF n = 0 THEN 1 ELSE 2 * Pow2(n - 1)

(***************************************************************************)
(* ApiError values: the variant, a tag for its message, the HTTP status    *)
(* the message reports (0 when it reports none).                           *)
(***************************************************************************)
Err(kind, msg, status) == [kind |-> kind, msg |-> msg, status |-> status]

NoError == Err("none", "", 0)

\* ApiError::from_reqwest_error with context "reqwest"; net is the failure
FromReqwestError(net) ==
    IF net = "timeout" THEN Err("RequestTimeout", "", 0)
    ELSE IF net = "connect" THEN Err("RequestFailed", "Connection failed", 0)
    ELSE Err("RequestFailed", "reqwest", 0)

(***************************************************************************)
(* EnvConfig (src/handler/env.rs).  The environment maps each variable to  *)
(* its value or to "not set".  A string's len() is its length in bytes:    *)
(* the character "e'" stands for one that takes two bytes in UTF-8.        *)
(***************************************************************************)
Unset == [set |-> FALSE, v |-> <<>>]

Set(chars) == [set |-> TRUE, v |-> chars]

\* the variables in the order EnvConfig::load reads them
VarNames ==
    <<"USER_EMAIL", "USER_PASSWORD", "BASE_URL", "LOGIN_ENDPOINT", "LOGOUT_ENDPOINT",
      "DASHBOARD_ENDPOINT", "CEKUNIT_EXPORT_ENDPOINT", "CEKUNIT_UNIQUE_ENDPOINT",
      "CEKUNIT_DELETE_CATEGORY_ENDPOINT", "DELETE_ALL_ENDPOINT", "CEKUNIT_ITEM_ENDPOINT",
      "INPUT_USER_ENDPOINT", "INPUT_USER_EXPORT_ENDPOINT", "INPUT_DATA_ENDPOINT",
      "PIC_ENDPOINT", "INPUT_PIC_ENDPOINT", "PIC_ITEM_ENDPOINT", "USERS_ENDPOINT",
      "USERS_ITEM_ENDPOINT">>

\* str::starts_with
StartsWith(s, prefix) ==
    Len(s) >= Len(prefix) /\ SubSeq(s, 1, Len(prefix)) = prefix

HttpScheme == <<"h", "t", "t", "p", ":", "/", "/">>

HttpsScheme == <<"h", "t", "t", "p", "s", ":", "/", "/">>

\* String::len: bytes, not characters
RECURSIVE ByteLen(_)
ByteLen(s) ==
    IF s = <<>> THEN 0 ELSE (IF Head(s) = "e'" THEN 2 ELSE 1) + ByteLen(Tail(s))

\* Result<String, EnvError>
EnvOk(chars) == [ok |-> TRUE, v |-> chars, err |-> NoError]

EnvErr(kind, key) == [ok |-> FALSE, v |-> <<>>, err |-> Err(kind, key, 0)]

get_env_non_empty(e, key) ==
    IF ~e[key].set THEN EnvErr("NotFound", key)
    ELSE IF Trim(e[key].v) = <<>> THEN EnvErr("Empty", key)
    ELSE EnvOk(Trim(e[key].v))

normalize_base(base) ==
    IF Trim(base) # <<>> /\ Trim(base)[Len(Trim(base))] = "/"
    THEN SubSeq(Trim(base), 1, Len(Trim(base)) - 1)
    ELSE Trim(base)

RECURSIVE TrimStartSlashes(_)
TrimStartSlashes(s) ==
    IF s # <<>> /\ Head(s) = "/" THEN TrimStartSlashes(Tail(s)) ELSE s

normalize_endpoint(endpoint) == TrimStartSlashes(Trim(endpoint))

\* a URL getter that leaves the scheme to validate
get_env_url_lenient(e, key) ==
    IF ~get_env_non_empty(e, key).ok THEN get_env_non_empty(e, key)
    ELSE EnvOk(normalize_base(get_env_non_empty(e, key).v))

get_env_url(e, key) ==
    LET val == get_env_non_empty(e, key)
    IN  IF ~val.ok THEN val
        ELSE IF ~StartsWith(val.v, HttpScheme) /\ ~StartsWith(val.v, HttpsScheme)
        THEN EnvErr("InvalidUrl", key)
        ELSE EnvOk(normalize_base(val.v))

get_env_endpoint(e, key) ==
    LET val == get_env_non_empty(e, key)
    IN  IF ~val.ok THEN val ELSE EnvOk(normalize_endpoint(val.v))

\* the getter EnvConfig::load applies to its i-th field
FieldOf(e, i) ==
    IF i <= 2 THEN get_env_non_empty(e, VarNames[i])
    ELSE IF i = 3 THEN get_env_url(e, VarNames[i])
    ELSE get_env_endpoint(e, VarNames[i])

\* EnvConfig::validate
validate(cfg) ==
    IF "@" \notin Range(cfg.user_email) THEN Err("Invalid", "USER_EMAIL", 0)
    ELSE IF ByteLen(cfg.user_password) < 8 THEN Err("Invalid", "USER_PASSWORD", 0)
    ELSE IF ~StartsWith(cfg.base_url, HttpScheme) /\ ~StartsWith(cfg.base_url, HttpsScheme)
    THEN Err("InvalidUrl", "BASE_URL", 0)
    ELSE NoError

NoConfig ==
    [user_email |-> <<>>, user_password |-> <<>>, base_url |-> <<>>,
     endpoints |-> [i \in 4..Len(VarNames) |-> <<>>]]

\* the `?` chain of EnvConfig::load from field i on: the first error ends it
RECURSIVE FirstError(_, _)
FirstError(e, i) ==
    IF i > Len(VarNames) THEN NoError
    ELSE IF ~FieldOf(e, i).ok THEN FieldOf(e, i).err
    ELSE FirstError(e, i + 1)

\* EnvConfig::load: Result<EnvConfig, EnvError>
EnvConfig_load(e) ==
    IF FirstError(e, 1) # NoError THEN [ok |-> FALSE, err |-> FirstError(e, 1), config |-> NoConfig]
    ELSE LET cfg == [user_email |-> FieldOf(e, 1).v, user_password |-> FieldOf(e, 2).v,
                     base_url |-> FieldOf(e, 3).v,
                     endpoints |-> [i \in 4..Len(VarNames) |-> FieldOf(e, i).v]]
         IN  IF validate(cfg) # NoError THEN [ok |-> FALSE, err |-> validate(cfg), config |-> NoConfig]
             ELSE [ok |-> TRUE, err |-> NoError, config |-> cfg]

\* an environment in which load succeeds
GoodEnv ==
    [k \in Range(VarNames) |->
        IF k = "USER_EMAIL" THEN Set(<<"a", "@", "b">>)
        ELSE IF k = "USER_PASSWORD" THEN Set(<<"1", "2", "3", "4", "5", "6", "7", "8">>)
        ELSE IF k = "BASE_URL" THEN Set(HttpScheme \o <<"h", "/">>)
        ELSE Set(<<"/", "e">>)]

\* other values of a variable: not set, blank, and values the checks are about
OtherValues(k) ==
    {Unset, Set(<<" ">>)}
    \cup (IF k = "USER_EMAIL" THEN {Set(<<"a", "b">>)}
          ELSE IF k = "USER_PASSWORD" THEN {Set(<<"1", "2", "3">>), Set(<<"e'", "e'", "e'", "e'">>)}
          ELSE IF k = "BASE_URL" THEN {Set(<<"f", "t", "p", ":", "/", "/", "h">>),
                                      Set(<<" ">> \o HttpsScheme \o <<"h", " ">>)}
          ELSE {})

\* the environments that differ from GoodEnv in at most n variables
RECURSIVE EnvsWithin(_)
EnvsWithin(n) ==
    IF n = 0 THEN {GoodEnv}
    ELSE EnvsWithin(n - 1)
         \cup UNION {{[e EXCEPT ![k] = o] : e \in EnvsWithin(n - 1), o \in OtherValues(k)} :
                      k \in Range(VarNames)}

(***************************************************************************)
(* Cookie codec.                                                           *)
(***************************************************************************)
NoPair == [some |-> FALSE, name |-> <<>>, value |-> <<>>]

\* parse_set_cookie: Option<(name, value)>
parse_set_cookie(cookie_str) ==
    LET name == Trim(Before(cookie_str, "="))
    IN  IF name = <<>> THEN NoPair
        ELSE IF IndexOf(cookie_str, "=") = 0 THEN NoPair
        ELSE LET rest == After(cookie_str, "=")
                 value == Trim(Before(rest, ";"))
             IN  [some |-> TRUE, name |-> name, value |-> value]

\* HeaderValue::to_str succeeds only on visible ASCII; "x80" stands for a byte >= 0x80
ToStrOk(header_value) == "x80" \notin Range(header_value)

\* HashMap::insert
MapInsert(m, k, v) == [n \in (DOMAIN m) \cup {k} |-> IF n = k THEN v ELSE m[n]]

EmptyMap == [n \in {} |-> <<>>]

RECURSIVE ExtractFrom(_, _)
ExtractFrom(values, cookies) ==
    IF values = <<>> THEN cookies
    ELSE LET p == parse_set_cookie(Head(values))
         IN  IF ToStrOk(Head(values)) /\ p.some
             THEN ExtractFrom(Tail(values), MapInsert(cookies, p.name, p.value))
             ELSE ExtractFrom(Tail(values), cookies)

\* extract_cookies over the Set-Cookie values of a response, in order
extract_cookies(set_cookie) == ExtractFrom(set_cookie, EmptyMap)

\* HeaderValue::from_str rejects control characters; "\n" stands for them
HeaderValueOk(chars) == "\n" \notin Range(chars)

\* add_cookies_to_headers: TRUE when the Cookie header can be built
CookieHeaderOk(cookie_map) ==
    \A n \in DOMAIN cookie_map : HeaderValueOk(n) /\ HeaderValueOk(cookie_map[n])

\* the (name, value) map collected from a Vec<Cookie>; later entries win
RECURSIVE CookieMapOf(_, _)
CookieMapOf(cookies, m) ==
    IF cookies = <<>> THEN m
    ELSE CookieMapOf(Tail(cookies), MapInsert(m, Head(cookies).name, Head(cookies).value))

(***************************************************************************)
(* Token extractor.  A document is reduced to what the two selectors see:  *)
(* the elements with name="_token" and those with name="csrf-token", in    *)
(* document order, each with its value/content attribute (or none).        *)
(***************************************************************************)
Attr(chars) == [has |-> TRUE, v |-> chars]

NoAttr == [has |-> FALSE, v |-> <<>>]

\* an element the selector matched: its tag and the attribute the extractor reads
Node(tag, attr) == [tag |-> tag, has |-> attr.has, v |-> attr.v]

NoneStr == [some |-> FALSE, v |-> <<>>]

\* first node, its attribute, trimmed, filtered non-empty
FirstAttr(nodes) ==
    IF nodes = <<>> THEN NoneStr
    ELSE IF ~Head(nodes).has THEN NoneStr
    ELSE IF Trim(Head(nodes).v) = <<>> THEN NoneStr
    ELSE [some |-> TRUE, v |-> Trim(Head(nodes).v)]

extract_from_input(html) == FirstAttr(html.inputs)

extract_from_meta(html) == FirstAttr(html.metas)

\* extract_csrf_token: ok with the token, or CsrfTokenNotFound
extract_csrf_token(html) ==
    IF extract_from_input(html).some
    THEN [ok |-> TRUE, token |-> extract_from_input(html).v, err |-> NoError]
    ELSE IF extract_from_meta(html).some
    THEN [ok |-> TRUE, token |-> extract_from_meta(html).v, err |-> NoError]
    ELSE [ok |-> FALSE, token |-> <<>>, err |-> Err("CsrfTokenNotFound", "", 0)]

(***************************************************************************)
(* CacheData, Cookie and the session file.                                 *)
(***************************************************************************)
BaseUrl == "https://t.example"

EmptyData == [cookies |-> <<>>, csrf_token |-> <<>>, logged_in |-> FALSE, timestamp |-> 0]

\* the session file: absent, or a document.  A document is its syntax
\* (FALSE for text that is not JSON, such as a truncated write), the keys of
\* its top-level object in textual order, and the value under each key.
NoFile ==
    [exists |-> FALSE, syntax |-> FALSE, keys |-> <<>>,
     cookies |-> <<>>, csrf_token |-> <<>>, logged_in |-> FALSE, timestamp |-> 0]

\* what a failed fs::write can leave behind: the file truncated, no document
Truncated ==
    [exists |-> TRUE, syntax |-> FALSE, keys |-> <<>>,
     cookies |-> <<>>, csrf_token |-> <<>>, logged_in |-> FALSE, timestamp |-> 0]

\* serde_json::to_string_pretty of a CacheData: fields in declaration order
Serialize(data) ==
    [exists |-> TRUE, syntax |-> TRUE,
     keys |-> <<"cookies", "csrf_token", "logged_in", "timestamp">>,
     cookies |-> data.cookies, csrf_token |-> data.csrf_token,
     logged_in |-> data.logged_in, timestamp |-> data.timestamp]

CacheDataKeys == {"cookies", "csrf_token", "logged_in", "timestamp"}

\* serde_json::from_str::<CacheData>: every field exactly once, any order
ParseOk(doc) ==
    /\ doc.syntax
    /\ \A k \in CacheDataKeys : Cardinality({i \in 1..Len(doc.keys) : doc.keys[i] = k}) = 1

Deserialize(doc) ==
    [cookies |-> doc.cookies, csrf_token |-> doc.csrf_token,
     logged_in |-> doc.logged_in, timestamp |-> doc.timestamp]

\* Result<Option<CacheData>, ApiError>
LoadResult(ok, err, some, data) == [ok |-> ok, err |-> err, some |-> some, data |-> data]

\* a load that takes an absent file for a logged-in session without cookies
load_assumed(f) ==
    IF ~f.exists THEN {LoadResult(TRUE, NoError, TRUE, [EmptyData EXCEPT !.logged_in = TRUE])}
    ELSE {LoadResult(FALSE, Err("CacheError", "Failed to read cache", 0), FALSE, EmptyData)}
         \cup {IF ParseOk(f)
               THEN LoadResult(TRUE, NoError, TRUE, Deserialize(f))
               ELSE LoadResult(FALSE, Err("JsonError", "", 0), FALSE, EmptyData)}

\* CacheManager::load: the possible results on file f (reading may fail)
load(f) ==
    IF ~f.exists THEN {LoadResult(TRUE, NoError, FALSE, EmptyData)}
    ELSE {LoadResult(FALSE, Err("CacheError", "Failed to read cache", 0), FALSE, EmptyData)}
         \cup {IF ParseOk(f)
               THEN LoadResult(TRUE, NoError, TRUE, Deserialize(f))
               ELSE LoadResult(FALSE, Err("JsonError", "", 0), FALSE, EmptyData)}

\* Result<(), ApiError> together with the file the call leaves behind
IoResult(ok, err, f) == [ok |-> ok, err |-> err, file |-> f]

\* CacheManager::save: fs::write replaces the content, or fails
save(f, data) ==
    {IoResult(TRUE, NoError, Serialize(data)),
     IoResult(FALSE, Err("CacheError", "Failed to write cache", 0), f),
     IoResult(FALSE, Err("CacheError", "Failed to write cache", 0), Truncated)}

\* clear that reports success without removing the file
clear_keeps(f) == {IoResult(TRUE, NoError, f)}

\* CacheManager::clear: remove the file when it exists
clear(f) ==
    IF f.exists
    THEN {IoResult(TRUE, NoError, NoFile),
          IoResult(FALSE, Err("CacheError", "Failed to clear cache", 0), f)}
    ELSE {IoResult(TRUE, NoError, f)}

\* an update that marks the session logged out
with_csrf_token_reset(data, new_token, now) ==
    [data EXCEPT !.csrf_token = new_token, !.timestamp = now, !.logged_in = FALSE]

\* a token update that also marks the session logged in
with_csrf_token_login(data, new_token, now) ==
    [data EXCEPT !.csrf_token = new_token, !.timestamp = now, !.logged_in = TRUE]

\* CacheData::with_csrf_token at time now
with_csrf_token(data, new_token, now) ==
    [data EXCEPT !.csrf_token = new_token, !.timestamp = now]

\* a freshness test that counts an age equal to the limit as fresh
is_fresh_inclusive(data, max_age_seconds, now) == now - data.timestamp <= max_age_seconds

\* CacheData::is_fresh at time now
is_fresh(data, max_age_seconds, now) == now - data.timestamp < max_age_seconds

(***************************************************************************)
(* The server: the responses an attempt can end in.                        *)
(***************************************************************************)
T1 == <<"T", "1">>

T2 == <<"T", "2">>

HtmlInput == [inputs |-> <<Node("input", Attr(<<" ", "T", "1", " ">>))>>, metas |-> <<>>]

HtmlMeta == [inputs |-> <<>>, metas |-> <<Node("meta", Attr(T2))>>]

HtmlNone == [inputs |-> <<>>, metas |-> <<>>]

Htmls == {HtmlInput, HtmlMeta, HtmlNone}

\* Set-Cookie: sid=A; P
SidCookie == <<"s", "=", "A", ";", " ", "P">>

\* Set-Cookie: t=d
ThemeCookie == <<"t", "=", "d">>

SetCookies == {<<>>, <<SidCookie, ThemeCookie>>}

\* Set-Cookie: x=1, sent with the login page
XsrfCookie == <<"x", "=", "1">>

\* net: "none" for an HTTP response, else the transport failure
Resp(net, status, bodyOk, html, set_cookie) ==
    [net |-> net, status |-> status, bodyOk |-> bodyOk, html |-> html, set_cookie |-> set_cookie]

NoResponse == Resp("none", 0, FALSE, HtmlNone, <<>>)

NetErrors == {Resp(n, 0, FALSE, HtmlNone, <<>>) : n \in {"timeout"}}

\* answers to GET login page
GetResponses ==
    NetErrors
    \cup {Resp("none", 200, TRUE, h, <<>>) : h \in Htmls}
    \cup {Resp("none", 200, TRUE, HtmlInput, <<XsrfCookie>>)}
    \cup {Resp("none", 200, FALSE, HtmlNone, <<>>)}
    \cup {Resp("none", s, TRUE, HtmlNone, <<>>) : s \in {404, 500}}

\* answers to POST login
LoginResponses ==
    NetErrors
    \cup {Resp("none", s, TRUE, HtmlNone, sc) : s \in {200, 302}, sc \in SetCookies}
    \cup {Resp("none", 200, FALSE, HtmlNone, <<>>)}
    \cup {Resp("none", s, TRUE, HtmlNone, <<>>) : s \in {419, 422, 503}}

\* answers to POST logout
LogoutResponses ==
    NetErrors
    \cup {Resp("none", s, TRUE, HtmlNone, <<>>) : s \in {200, 301, 302, 303, 419, 422, 503}}

\* StatusCode::is_success
is_success(status) == status >= 200 /\ status < 300

\* cookie_store(true): the transport keeps the cookies of every response
Stored(store, r) == IF r.net = "none" THEN ExtractFrom(r.set_cookie, store) ELSE store

(***************************************************************************)
(* State.                                                                  *)
(***************************************************************************)
VARIABLES
    config,      \* EnvConfig: user_email, user_password, base_url
    file,        \* the session file session.json
    clock,       \* wall clock, seconds
    pc,          \* position of the running operation, "idle" between calls
    attempt,     \* loop variable of the running retry loop
    last_error,  \* last_error of the running retry loop
    csrf_token,  \* the token of the running operation
    headers,     \* cookies attached to the request headers
    response,    \* the response the retry loop returned
    cookies,     \* cookies extracted from the response
    cache_data,  \* the CacheData built by login / loaded by logout
    result,      \* what the last finished call returned
    fileBefore,  \* history: the file when the running call began
    trace,       \* history: requests, sleeps and store writes of the call
    log,         \* history: outcome of each attempt of the running retry loop
    jar,         \* the cookie store of the LoginClient's transport
    env          \* the process environment EnvConfig::load reads (after dotenv)

vars == <<config, file, clock, pc, attempt, last_error, csrf_token, headers,
          response, cookies, cache_data, result, fileBefore, trace, log, jar, env>>

Ev(e, tok, ms) == [e |-> e, tok |-> tok, ms |-> ms]

Outcome(r, err) == [net |-> r.net, status |-> r.status, err |-> err]

Result(op, ok, err, data, step) == [op |-> op, ok |-> ok, err |-> err, data |-> data, step |-> step]

NoResult == Result("none", FALSE, NoError, EmptyData, "")

\* the call op has not returned yet
Running(op) == Result(op, FALSE, NoError, EmptyData, "running")

Emails == {<<>>, <<"a", "@", "b">>}

Passwords == {<<>>, <<"p", "w">>}

Init ==
    /\ config \in [user_email : Emails, user_password : Passwords, base_url : {BaseUrl}]
    /\ file = NoFile
    /\ clock = 0
    /\ pc = "idle"
    /\ attempt = 0
    /\ last_error = NoError
    /\ csrf_token = <<>>
    /\ headers = EmptyMap
    /\ response = NoResponse
    /\ cookies = EmptyMap
    /\ cache_data = EmptyData
    /\ result = NoResult
    /\ fileBefore = NoFile
    /\ trace = <<>>
    /\ log = <<>>
    /\ jar = EmptyMap
    /\ env = GoodEnv

\* a call begins: its locals start afresh
Enter ==
    /\ pc = "idle"
    /\ attempt' = 0
    /\ last_error' = NoError
    /\ response' = NoResponse
    /\ cookies' = EmptyMap
    /\ fileBefore' = file
    /\ log' = <<>>

\* a call begins, and has done nothing yet
Begin ==
    /\ Enter
    /\ trace' = <<>>

\* a call returns
Return(r) ==
    /\ pc' = "idle"
    /\ result' = r

(***************************************************************************)
(* Retry schedule shared by the three retry loops.                         *)
(***************************************************************************)
\* a delay that does not grow
RetryDelay_flat(n) == INITIAL_RETRY_DELAY

\* INITIAL_RETRY_DELAY * 2_u32.pow(attempt), in milliseconds
RetryDelay(n) == INITIAL_RETRY_DELAY * Pow2(n)

\* a sleep after every attempt, the last included
SleepsAfter_always(n) == n < MAX_RETRIES

\* if attempt < MAX_RETRIES - 1 { sleep }
SleepsAfter(n) == n < MAX_RETRIES - 1

\* the sleep, if any, that follows failed attempt n
SleepEvents(n) == IF SleepsAfter(n) THEN <<Ev("SLEEP", <<>>, RetryDelay(n))>> ELSE <<>>

(***************************************************************************)
(* LoginClient.                                                            *)
(***************************************************************************)
\* a validate_credentials that insists on the '@'
validate_credentials_strict(cfg) ==
    IF cfg.user_email = <<>> THEN Err("LoginFailed", "USER_EMAIL cannot be empty", 0)
    ELSE IF cfg.user_password = <<>> THEN Err("LoginFailed", "USER_PASSWORD cannot be empty", 0)
    ELSE IF "@" \notin Range(cfg.user_email) THEN Err("LoginFailed", "USER_EMAIL", 0)
    ELSE NoError

\* validate_credentials
validate_credentials(cfg) ==
    IF cfg.user_email = <<>> THEN Err("LoginFailed", "USER_EMAIL cannot be empty", 0)
    ELSE IF cfg.user_password = <<>> THEN Err("LoginFailed", "USER_PASSWORD cannot be empty", 0)
    ELSE NoError

TokenResult(ok, token, err) == [ok |-> ok, token |-> token, err |-> err]

\* fetch_csrf_token on the answer r to the GET
fetch_csrf_token(r) ==
    IF r.net # "none" THEN TokenResult(FALSE, <<>>, FromReqwestError(r.net))
    ELSE IF ~is_success(r.status)
    THEN TokenResult(FALSE, <<>>, Err("LoginFailed", "Failed to fetch login page", r.status))
    ELSE IF ~r.bodyOk THEN TokenResult(FALSE, <<>>, FromReqwestError("body"))
    ELSE extract_csrf_token(r.html)

\* validate_login_response
validate_login_response(status) ==
    IF is_success(status) THEN NoError
    ELSE IF status = 419 THEN Err("LoginFailed", "CSRF token expired or invalid", 0)
    ELSE IF status = 422 THEN Err("LoginFailed", "Validation error: email/password incorrect", 0)
    ELSE IF status = 429 THEN Err("LoginFailed", "Too many requests, please try later", 0)
    ELSE IF status >= 500 /\ status <= 599 THEN Err("LoginFailed", "Server error", status)
    ELSE Err("LoginFailed", "HTTP", status)

\* only a 2xx response ends the loop: a 4xx answer is retried
LoginResponseReturned_2xx(r) == r.net = "none" /\ is_success(r.status)

\* execute_login_request: the response is handed back to login
LoginResponseReturned(r) == r.net = "none" /\ (is_success(r.status) \/ r.status < 500)

\* execute_login_request: last_error recorded for an attempt that is not returned
LoginAttemptError(r) ==
    IF r.net # "none" THEN FromReqwestError(r.net)
    ELSE Err("RequestFailed", "HTTP", r.status)

\* the orders in which a HashMap with key set d can be iterated
Orders(d) ==
    {o \in [1..Cardinality(d) -> d] : \A i, j \in 1..Cardinality(d) : o[i] = o[j] => i = j}

\* build_cache_data that loses the token
build_cache_data_notoken(cookie_map, o, token, now, cfg) ==
    [cookies |-> [i \in 1..Len(o) |->
                    [name |-> o[i], value |-> cookie_map[o[i]], domain |-> cfg.base_url,
                     path |-> "/", http_only |-> TRUE, secure |-> FALSE]],
     csrf_token |-> <<>>,
     logged_in |-> TRUE,
     timestamp |-> now]

\* a session that keeps the password in the place of the token
build_cache_data_password(cookie_map, o, token, now, cfg) ==
    [cookies |-> [i \in 1..Len(o) |->
                    [name |-> o[i], value |-> cookie_map[o[i]], domain |-> cfg.base_url,
                     path |-> "/", http_only |-> TRUE, secure |-> FALSE]],
     csrf_token |-> cfg.user_password,
     logged_in |-> TRUE,
     timestamp |-> now]

\* build_cache_data: cookies taken in iteration order o
build_cache_data(cookie_map, o, token, now, cfg) ==
    [cookies |-> [i \in 1..Len(o) |->
                    [name |-> o[i], value |-> cookie_map[o[i]], domain |-> cfg.base_url,
                     path |-> "/", http_only |-> TRUE, secure |-> FALSE]],
     csrf_token |-> token,
     logged_in |-> TRUE,
     timestamp |-> now]

\* login: validate_credentials
LoginBegin ==
    /\ Begin
    /\ csrf_token' = <<>>
    /\ headers' = EmptyMap
    /\ cache_data' = EmptyData
    /\ IF validate_credentials(config) = NoError
       THEN pc' = "login_csrf" /\ result' = Running("login")
       ELSE Return(Result("login", FALSE, validate_credentials(config), EmptyData, "validate"))
    /\ UNCHANGED <<env, jar, config, file, clock>>

\* fetch_csrf_token_with_retry: one iteration of the loop
LoginFetchCsrf ==
    /\ pc = "login_csrf"
    /\ attempt < MAX_RETRIES
    /\ \E r \in GetResponses :
         LET t == fetch_csrf_token(r)
         IN  /\ log' = Append(log, Outcome(r, t.err))
             /\ jar' = Stored(jar, r)
             /\ IF t.ok
                THEN /\ csrf_token' = t.token
                     /\ trace' = trace \o <<Ev("GET", <<>>, 0), Ev("TOKEN", t.token, 0)>>
                     /\ pc' = "login_attach"
                     /\ UNCHANGED <<attempt, last_error, result>>
                ELSE /\ last_error' = t.err
                     /\ trace' = trace \o <<Ev("GET", <<>>, 0)>> \o SleepEvents(attempt)
                     /\ attempt' = attempt + 1
                     /\ IF attempt + 1 < MAX_RETRIES
                        THEN UNCHANGED <<pc, result>>
                        ELSE Return(Result("login", FALSE, t.err, EmptyData, "csrf"))
                     /\ UNCHANGED csrf_token
    /\ UNCHANGED <<env, config, file, clock, headers, response, cookies, cache_data, fileBefore>>

\* build_base_headers, attach_cached_cookies; then execute_login_request starts
LoginAttach ==
    /\ pc = "login_attach"
    /\ \E l \in load(file) :
         LET cookie_map == CookieMapOf(l.data.cookies, EmptyMap)
         IN  IF ~l.ok
             THEN /\ Return(Result("login", FALSE, l.err, EmptyData, "attach"))
                  /\ UNCHANGED headers
             ELSE IF l.some /\ DOMAIN cookie_map # {} /\ ~CookieHeaderOk(cookie_map)
             THEN /\ Return(Result("login", FALSE, Err("CacheError", "Invalid cookie header", 0),
                                   EmptyData, "attach"))
                  /\ UNCHANGED headers
             ELSE /\ headers' = IF l.some THEN cookie_map ELSE EmptyMap
                  /\ pc' = "login_post"
                  /\ UNCHANGED result
    /\ attempt' = 0
    /\ last_error' = NoError
    /\ log' = <<>>
    /\ UNCHANGED <<env, jar, config, file, clock, csrf_token, response, cookies, cache_data,
                   fileBefore, trace>>

\* a POST loop that surfaces the first error it captured
LoginPost_first ==
    /\ pc = "login_post"
    /\ attempt < MAX_RETRIES
    /\ \E r \in LoginResponses :
         /\ jar' = Stored(jar, r)
         /\ IF LoginResponseReturned(r)
            THEN /\ response' = r
                 /\ log' = Append(log, Outcome(r, NoError))
                 /\ trace' = Append(trace, Ev("POST", csrf_token, 0))
                 /\ pc' = "login_validate"
                 /\ UNCHANGED <<attempt, last_error, result>>
            ELSE /\ last_error' = LoginAttemptError(r)
                 /\ log' = Append(log, Outcome(r, LoginAttemptError(r)))
                 /\ trace' = Append(trace, Ev("POST", csrf_token, 0)) \o SleepEvents(attempt)
                 /\ attempt' = attempt + 1
                 /\ IF attempt + 1 < MAX_RETRIES
                    THEN UNCHANGED <<pc, result>>
                    ELSE Return(Result("login", FALSE,
                                       IF last_error # NoError THEN last_error
                                       ELSE LoginAttemptError(r),
                                       EmptyData, "post"))
                 /\ UNCHANGED response
    /\ UNCHANGED <<env, config, file, clock, csrf_token, headers, cookies, cache_data, fileBefore>>

\* execute_login_request: one iteration of the loop
LoginPost ==
    /\ pc = "login_post"
    /\ attempt < MAX_RETRIES
    /\ \E r \in LoginResponses :
         /\ jar' = Stored(jar, r)
         /\ IF LoginResponseReturned(r)
            THEN /\ response' = r
                 /\ log' = Append(log, Outcome(r, NoError))
                 /\ trace' = Append(trace, Ev("POST", csrf_token, 0))
                 /\ pc' = "login_validate"
                 /\ UNCHANGED <<attempt, last_error, result>>
            ELSE /\ last_error' = LoginAttemptError(r)
                 /\ log' = Append(log, Outcome(r, LoginAttemptError(r)))
                 /\ trace' = Append(trace, Ev("POST", csrf_token, 0)) \o SleepEvents(attempt)
                 /\ attempt' = attempt + 1
                 /\ IF attempt + 1 < MAX_RETRIES
                    THEN UNCHANGED <<pc, result>>
                    ELSE Return(Result("login", FALSE, LoginAttemptError(r), EmptyData, "post"))
                 /\ UNCHANGED response
    /\ UNCHANGED <<env, config, file, clock, csrf_token, headers, cookies, cache_data, fileBefore>>

\* a login that deletes the session file when the response is rejected
LoginValidate_clearing ==
    /\ pc = "login_validate"
    /\ IF ~response.bodyOk
       THEN /\ Return(Result("login", FALSE, FromReqwestError("body"), EmptyData, "body"))
            /\ UNCHANGED file
       ELSE IF validate_login_response(response.status) # NoError
       THEN /\ Return(Result("login", FALSE, validate_login_response(response.status),
                             EmptyData, "status"))
            /\ file' = NoFile
       ELSE pc' = "login_harvest" /\ UNCHANGED <<result, file>>
    /\ UNCHANGED <<env, jar, config, clock, attempt, last_error, csrf_token, headers, response,
                   cookies, cache_data, fileBefore, trace, log>>

\* login: response.text(), then validate_login_response
LoginValidate ==
    /\ pc = "login_validate"
    /\ IF ~response.bodyOk
       THEN Return(Result("login", FALSE, FromReqwestError("body"), EmptyData, "body"))
       ELSE IF validate_login_response(response.status) # NoError
       THEN Return(Result("login", FALSE, validate_login_response(response.status),
                          EmptyData, "status"))
       ELSE pc' = "login_harvest" /\ UNCHANGED result
    /\ UNCHANGED <<env, jar, config, file, clock, attempt, last_error, csrf_token, headers, response,
                   cookies, cache_data, fileBefore, trace, log>>

\* login: extract_cookies, then build_cache_data
LoginHarvest ==
    /\ pc = "login_harvest"
    /\ cookies' = extract_cookies(response.set_cookie)
    /\ \E o \in Orders(DOMAIN cookies') :
         cache_data' = build_cache_data(cookies', o, csrf_token, clock, config)
    /\ trace' = Append(trace, Ev("HARVEST", <<>>, 0))
    /\ pc' = "login_save"
    /\ UNCHANGED <<env, jar, config, file, clock, attempt, last_error, csrf_token, headers, response,
                   result, fileBefore, log>>

\* a login that ignores the result of save
LoginSave_ignoring ==
    /\ pc = "login_save"
    /\ \E s \in save(file, cache_data) :
         /\ file' = s.file
         /\ trace' = IF s.ok THEN Append(trace, Ev("SAVE", <<>>, 0)) ELSE trace
         /\ pc' = "login_return"
         /\ UNCHANGED result
    /\ UNCHANGED <<env, jar, config, clock, attempt, last_error, csrf_token, headers, response,
                   cookies, cache_data, fileBefore, log>>

\* login: cache_manager.save(&cache_data)?
LoginSave ==
    /\ pc = "login_save"
    /\ \E s \in save(file, cache_data) :
         /\ file' = s.file
         /\ IF s.ok
            THEN /\ trace' = Append(trace, Ev("SAVE", <<>>, 0))
                 /\ pc' = "login_return"
                 /\ UNCHANGED result
            ELSE /\ Return(Result("login", FALSE, s.err, EmptyData, "save"))
                 /\ UNCHANGED trace
    /\ UNCHANGED <<env, jar, config, clock, attempt, last_error, csrf_token, headers, response,
                   cookies, cache_data, fileBefore, log>>

\* login: Ok(cache_data)
LoginReturn ==
    /\ pc = "login_return"
    /\ Return(Result("login", TRUE, NoError, cache_data, "return"))
    /\ UNCHANGED <<env, jar, config, file, clock, attempt, last_error, csrf_token, headers, response,
                   cookies, cache_data, fileBefore, trace, log>>

(***************************************************************************)
(* LogoutClient.                                                           *)
(***************************************************************************)
\* a client error reported as RequestFailed
map_logout_error_request(status) == Err("RequestFailed", "HTTP", status)

\* map_logout_error
map_logout_error(status) ==
    IF status = 419 THEN Err("LogoutFailed", "CSRF token expired or invalid", 0)
    ELSE IF status = 422 THEN Err("LogoutFailed", "Validation error (maybe missing _token)", 0)
    ELSE IF status = 429 THEN Err("LogoutFailed", "Too many requests, please try later", 0)
    ELSE IF status >= 500 /\ status <= 599 THEN Err("LogoutFailed", "Server error", status)
    ELSE Err("LogoutFailed", "HTTP", status)

\* every redirect counts as a successful logout
LogoutSucceeded_3xx(status) == is_success(status) \/ (status >= 300 /\ status < 400)

\* a server error counts as a successful logout
LogoutSucceeded_5xx(status) == is_success(status) \/ status = 302 \/ status = 303 \/ status >= 500

\* execute_logout_request: the statuses that count as a successful logout
LogoutSucceeded(status) == is_success(status) \/ status = 302 \/ status = 303

\* a logout that reports the failure of clear
LogoutSuccessResult_strict(op, c) == Result(op, c.ok, c.err, EmptyData, "return")

\* execute_logout_request after a success status: the outcome c of clear is
\* logged, Ok(()) is returned
LogoutSuccessResult(op, c) == Result(op, TRUE, NoError, EmptyData, "return")

\* execute_logout_request: last_error recorded for an attempt that will be retried
LogoutAttemptError(r) ==
    IF r.net # "none" THEN FromReqwestError(r.net)
    ELSE Err("LogoutFailed", "HTTP", r.status)

Tokens == {T1, T2}

\* the answers considered for the POSTs of CekUnitClient::logout
ClientLogoutResponses ==
    NetErrors \cup {Resp("none", st, TRUE, HtmlNone, <<>>) : st \in {200, 419}}

LogoutAnswers(op) == IF op = "client_logout" THEN ClientLogoutResponses ELSE LogoutResponses

\* a CekUnitClient::logout that gives up when its first logout failed
Finish_terminal(op, stage, r) == Return(r)

\* a call of the LogoutClient ends with r.  CekUnitClient::logout goes on to
\* logout() when its logout_with_token (stage "fresh") failed.
Finish(op, stage, r) ==
    IF stage = "fresh" /\ ~r.ok
    THEN /\ pc' = "client_fallback"
         /\ result' = Result(op, FALSE, NoError, EmptyData, "fallback")
    ELSE Return(r)

\* logout / logout_with_token: load_valid_session, then build_headers.
\* given is TRUE for logout_with_token, whose argument is token.
LogoutBody(op, given, token, stage) ==
    \E l \in load(file) :
      LET cookie_map == CookieMapOf(l.data.cookies, EmptyMap)
          valid == l.ok /\ l.some /\ l.data.logged_in
          sent == valid /\ (DOMAIN cookie_map = {} \/ CookieHeaderOk(cookie_map))
      IN  /\ cache_data' = IF valid THEN l.data ELSE EmptyData
          /\ headers' = IF sent THEN cookie_map ELSE EmptyMap
          /\ csrf_token' = IF ~sent THEN <<>>
                           ELSE IF given THEN token ELSE l.data.csrf_token
          /\ IF sent
             THEN /\ pc' = "logout_post"
                  /\ result' = Result(op, FALSE, NoError, EmptyData, stage)
                  /\ UNCHANGED file
             ELSE IF valid
             THEN /\ Finish(op, stage, Result(op, FALSE,
                                              Err("CacheError", "Invalid cookie header", 0),
                                              EmptyData, "headers"))
                  /\ UNCHANGED file
             ELSE IF ~l.ok
             THEN /\ Finish(op, stage, Result(op, FALSE, l.err, EmptyData, "load"))
                  /\ UNCHANGED file
             ELSE IF l.some
             THEN \E c \in clear(file) :
                    /\ file' = c.file
                    /\ Finish(op, stage,
                              Result(op, FALSE,
                                     IF c.ok THEN Err("NotAuthenticated", "", 0) ELSE c.err,
                                     EmptyData, "load"))
             ELSE /\ Finish(op, stage, Result(op, FALSE, Err("NotAuthenticated", "", 0),
                                              EmptyData, "load"))
                  /\ UNCHANGED file

LogoutStart(op, given, token) ==
    /\ Begin
    /\ LogoutBody(op, given, token, "running")
    /\ UNCHANGED <<env, jar, config, clock>>

\* LogoutClient::logout
Logout == LogoutStart("logout", FALSE, <<>>)

\* LogoutClient::logout_with_token
LogoutWithToken == \E t \in Tokens : LogoutStart("logout_with_token", TRUE, t)

\* execute_logout_request: one iteration of the loop
LogoutPost ==
    /\ pc = "logout_post"
    /\ attempt < MAX_RETRIES
    /\ \E r \in LogoutAnswers(result.op) :
         IF r.net = "none" /\ LogoutSucceeded(r.status)
         THEN \E c \in clear(file) :
                /\ file' = c.file
                /\ log' = Append(log, Outcome(r, NoError))
                /\ trace' = Append(trace, Ev("POST", csrf_token, 0))
                              \o (IF c.ok THEN <<Ev("CLEAR", <<>>, 0)>> ELSE <<>>)
                /\ Finish(result.op, result.step, LogoutSuccessResult(result.op, c))
                /\ UNCHANGED <<attempt, last_error>>
         ELSE IF r.net = "none" /\ r.status < 500
         THEN /\ log' = Append(log, Outcome(r, map_logout_error(r.status)))
              /\ trace' = Append(trace, Ev("POST", csrf_token, 0))
              /\ Finish(result.op, result.step,
                        Result(result.op, FALSE, map_logout_error(r.status), EmptyData, "post"))
              /\ UNCHANGED <<file, attempt, last_error>>
         ELSE /\ last_error' = LogoutAttemptError(r)
              /\ log' = Append(log, Outcome(r, LogoutAttemptError(r)))
              /\ trace' = Append(trace, Ev("POST", csrf_token, 0)) \o SleepEvents(attempt)
              /\ attempt' = attempt + 1
              /\ IF attempt + 1 < MAX_RETRIES
                 THEN UNCHANGED <<pc, result>>
                 ELSE Finish(result.op, result.step,
                             Result(result.op, FALSE, LogoutAttemptError(r), EmptyData, "post"))
              /\ UNCHANGED file
    /\ UNCHANGED <<env, jar, config, clock, csrf_token, headers, response, cookies, cache_data,
                   fileBefore>>

\* the locals of login and logout are not used by these calls
NoLocals ==
    /\ csrf_token' = <<>>
    /\ headers' = EmptyMap
    /\ cache_data' = EmptyData

(***************************************************************************)
(* The request builders: DashboardClient, PicClient, InputUserClient,      *)
(* InputDataClient and UsersClient.                                        *)
(***************************************************************************)
\* Result<CacheData, ApiError> of a gate check, and the file it leaves behind
GateResult(ok, err, data, f) == [ok |-> ok, err |-> err, data |-> data, file |-> f]

\* a gate check that does not look at logged_in
ensure_authenticated_open(f) ==
    {IF ~l.ok THEN GateResult(FALSE, l.err, EmptyData, f)
     ELSE IF l.some THEN GateResult(TRUE, NoError, l.data, f)
     ELSE GateResult(FALSE, Err("NotAuthenticated", "", 0), EmptyData, f) : l \in load(f)}

\* ensure_authenticated of DashboardClient, PicClient, InputUserClient and
\* InputDataClient
ensure_authenticated(f) ==
    {IF ~l.ok THEN GateResult(FALSE, l.err, EmptyData, f)
     ELSE IF l.some /\ l.data.logged_in THEN GateResult(TRUE, NoError, l.data, f)
     ELSE GateResult(FALSE, Err("NotAuthenticated", "", 0), EmptyData, f) : l \in load(f)}

\* UsersClient::ensure_authenticated
users_ensure_authenticated(f) ==
    UNION {IF ~l.ok THEN {GateResult(FALSE, l.err, EmptyData, f)}
           ELSE IF l.some /\ l.data.logged_in THEN {GateResult(TRUE, NoError, l.data, f)}
           ELSE IF l.some
           THEN {GateResult(FALSE, IF c.ok THEN Err("NotAuthenticated", "", 0) ELSE c.err,
                            EmptyData, c.file) : c \in clear(f)}
           ELSE {GateResult(FALSE, Err("NotAuthenticated", "", 0), EmptyData, f)}
           : l \in load(f)}

Clients == {"dashboard", "pic", "input_user", "input_data", "users"}

\* the gate check of each client
Gate(client, f) ==
    IF client = "users" THEN users_ensure_authenticated(f) ELSE ensure_authenticated(f)

\* answers to the GET of a page
PageResponses ==
    NetErrors
    \cup {Resp("none", 200, TRUE, h, <<>>) : h \in {HtmlMeta, HtmlNone}}
    \cup {Resp("none", 200, FALSE, HtmlNone, <<>>), Resp("none", 500, TRUE, HtmlNone, <<>>)}
    \cup {Resp("none", 401, TRUE, HtmlNone, <<>>), Resp("none", 419, TRUE, HtmlNone, <<>>)}

\* Result<String, ApiError>: the page
PageResult(ok, err, html) == [ok |-> ok, err |-> err, html |-> html]

\* get_dashboard (and get_pic_list, get_input_user, get_form, get_users_list)
\* on the answer r to its GET
get_dashboard(r) ==
    IF r.net # "none" THEN PageResult(FALSE, FromReqwestError(r.net), HtmlNone)
    ELSE IF ~is_success(r.status)
    THEN PageResult(FALSE, Err("RequestFailed", "HTTP", r.status), HtmlNone)
    ELSE IF ~r.bodyOk THEN PageResult(FALSE, FromReqwestError("body"), HtmlNone)
    ELSE PageResult(TRUE, NoError, r.html)

\* the file was read, and deleted when the gate check deleted it
GateEvents(g, f) ==
    <<Ev("READ", <<>>, 0)>> \o (IF g.file # f THEN <<Ev("CLEAR", <<>>, 0)>> ELSE <<>>)

\* get_dashboard, get_pic_list, get_input_user, get_form, get_users_list:
\* ensure_authenticated, build_headers_with_cookies, then one GET
GetPage ==
    /\ Enter
    /\ NoLocals
    /\ \E client \in Clients :
         \E g \in Gate(client, file) :
           /\ file' = g.file
           /\ IF ~g.ok
              THEN /\ trace' = GateEvents(g, file)
                   /\ Return(Result(client, FALSE, g.err, EmptyData, "gate"))
              ELSE IF ~CookieHeaderOk(CookieMapOf(g.data.cookies, EmptyMap))
              THEN /\ trace' = GateEvents(g, file)
                   /\ Return(Result(client, FALSE, Err("CacheError", "Invalid cookie header", 0),
                                    g.data, "headers"))
              ELSE \E r \in PageResponses :
                     /\ trace' = Append(GateEvents(g, file), Ev("GET", <<>>, 0))
                     /\ Return(Result(client, get_dashboard(r).ok, get_dashboard(r).err,
                                      g.data, "request"))
    /\ UNCHANGED <<env, jar, config, clock>>

\* answers to the POST of delete_all
DeleteResponses ==
    NetErrors \cup {Resp("none", st, TRUE, HtmlNone, <<>>) : st \in {200, 302, 401, 419, 500}}

\* delete_all on the answer r to its POST
delete_all(r) ==
    IF r.net # "none" THEN FromReqwestError(r.net)
    ELSE IF is_success(r.status) \/ r.status = 302 THEN NoError
    ELSE Err("RequestFailed", "HTTP", r.status)

\* a delete_all that drops the session when the server answers 401 or 419
DeleteAll_expiring ==
    /\ Enter
    /\ NoLocals
    /\ \E g \in ensure_authenticated(file) :
         IF ~g.ok
         THEN /\ file' = g.file
              /\ trace' = GateEvents(g, file)
              /\ Return(Result("delete_all", FALSE, g.err, EmptyData, "gate"))
         ELSE IF ~CookieHeaderOk(CookieMapOf(g.data.cookies, EmptyMap))
         THEN /\ file' = g.file
              /\ trace' = GateEvents(g, file)
              /\ Return(Result("delete_all", FALSE, Err("CacheError", "Invalid cookie header", 0),
                               g.data, "headers"))
         ELSE \E r \in DeleteResponses :
                /\ file' = IF r.status \in {401, 419} THEN NoFile ELSE g.file
                /\ trace' = Append(GateEvents(g, file), Ev("POST", g.data.csrf_token, 0))
                /\ Return(Result("delete_all", delete_all(r) = NoError, delete_all(r),
                                 g.data, "request"))
    /\ UNCHANGED <<env, jar, config, clock>>

\* DashboardClient::delete_all: ensure_authenticated, build_headers_with_cookies,
\* then one POST that carries the cached token (insert_pic, update_pic,
\* delete_pic, insert_nasabah and the other form requests have this shape)
DeleteAll ==
    /\ Enter
    /\ NoLocals
    /\ \E g \in ensure_authenticated(file) :
         /\ file' = g.file
         /\ IF ~g.ok
            THEN /\ trace' = GateEvents(g, file)
                 /\ Return(Result("delete_all", FALSE, g.err, EmptyData, "gate"))
            ELSE IF ~CookieHeaderOk(CookieMapOf(g.data.cookies, EmptyMap))
            THEN /\ trace' = GateEvents(g, file)
                 /\ Return(Result("delete_all", FALSE, Err("CacheError", "Invalid cookie header", 0),
                                  g.data, "headers"))
            ELSE \E r \in DeleteResponses :
                   /\ trace' = Append(GateEvents(g, file), Ev("POST", g.data.csrf_token, 0))
                   /\ Return(Result("delete_all", delete_all(r) = NoError, delete_all(r),
                                    g.data, "request"))
    /\ UNCHANGED <<env, jar, config, clock>>

(***************************************************************************)
(* CekUnitClient.                                                          *)
(***************************************************************************)
\* DashboardClient::get_csrf_token on the answer r to the GET of the dashboard
get_csrf_token(r) ==
    IF get_dashboard(r).ok THEN extract_csrf_token(get_dashboard(r).html)
    ELSE TokenResult(FALSE, <<>>, get_dashboard(r).err)

\* CekUnitClient::logout: dashboard().get_csrf_token()
ClientLogout ==
    /\ Enter
    /\ headers' = EmptyMap
    /\ cache_data' = EmptyData
    /\ \E g \in ensure_authenticated(file) :
         IF ~g.ok \/ ~CookieHeaderOk(CookieMapOf(g.data.cookies, EmptyMap))
         THEN /\ trace' = GateEvents(g, file)
              /\ csrf_token' = <<>>
              /\ pc' = "client_fallback"
              /\ result' = Result("client_logout", FALSE, NoError, EmptyData, "fallback")
         ELSE \E r \in PageResponses :
                IF get_csrf_token(r).ok
                THEN /\ trace' = GateEvents(g, file)
                                   \o <<Ev("GET", <<>>, 0), Ev("TOKEN", get_csrf_token(r).token, 0)>>
                     /\ csrf_token' = get_csrf_token(r).token
                     /\ pc' = "client_fresh"
                     /\ result' = Result("client_logout", FALSE, NoError, EmptyData, "fresh")
                ELSE /\ trace' = Append(GateEvents(g, file), Ev("GET", <<>>, 0))
                     /\ csrf_token' = <<>>
                     /\ pc' = "client_fallback"
                     /\ result' = Result("client_logout", FALSE, NoError, EmptyData, "fallback")
    /\ UNCHANGED <<env, jar, config, file, clock>>

\* CekUnitClient::logout: logout_client.logout_with_token(&token)
ClientFresh ==
    /\ pc = "client_fresh"
    /\ attempt' = 0
    /\ last_error' = NoError
    /\ log' = <<>>
    /\ LogoutBody("client_logout", TRUE, csrf_token, "fresh")
    /\ UNCHANGED <<env, jar, config, clock, response, cookies, fileBefore, trace>>

\* CekUnitClient::logout: self.logout_client.logout()
ClientFallback ==
    /\ pc = "client_fallback"
    /\ attempt' = 0
    /\ last_error' = NoError
    /\ log' = <<>>
    /\ trace' = Append(trace, Ev("FALLBACK", <<>>, 0))
    /\ LogoutBody("client_logout", FALSE, <<>>, "fallback")
    /\ UNCHANGED <<env, jar, config, clock, response, cookies, fileBefore>>

(***************************************************************************)
(* Direct uses of the CacheManager by a caller, and the passing of time.   *)
(***************************************************************************)
\* LogoutClient::clear_cache
ClearCache ==
    /\ Begin
    /\ NoLocals
    /\ \E c \in clear(file) :
         /\ file' = c.file
         /\ Return(Result("clear", c.ok, c.err, EmptyData, "return"))
    /\ UNCHANGED <<env, jar, config, clock>>

\* CacheManager::update_csrf_token(new_token)
UpdateCsrfToken ==
    /\ Enter
    /\ NoLocals
    /\ \E new_token \in Tokens \cup {<<>>} :
         /\ trace' = <<Ev("UPDATE", new_token, clock)>>
         /\ \E l \in load(file) :
           IF ~l.ok
           THEN /\ Return(Result("update", FALSE, l.err, EmptyData, "load"))
                /\ UNCHANGED file
           ELSE IF l.some
           THEN \E s \in save(file, with_csrf_token(l.data, new_token, clock)) :
                  /\ file' = s.file
                  /\ Return(Result("update", s.ok, s.err, EmptyData, "save"))
           ELSE /\ Return(Result("update", TRUE, NoError, EmptyData, "return"))
                /\ UNCHANGED file
    /\ UNCHANGED <<env, jar, config, clock>>

\* sessions a caller writes itself with CacheManager::save
StaleSession(now) ==
    [cookies |-> <<[name |-> <<"s">>, value |-> <<"A">>, domain |-> BaseUrl,
                    path |-> "/", http_only |-> TRUE, secure |-> FALSE]>>,
     csrf_token |-> T1, logged_in |-> FALSE, timestamp |-> now]

OddSession(now) ==
    [cookies |-> <<[name |-> <<"s">>, value |-> <<"\n">>, domain |-> BaseUrl,
                    path |-> "/", http_only |-> TRUE, secure |-> FALSE]>>,
     csrf_token |-> T1, logged_in |-> TRUE, timestamp |-> now]

\* CacheManager::save called by the caller
SaveDirect ==
    /\ Begin
    /\ NoLocals
    /\ \E data \in {StaleSession(clock), OddSession(clock)} :
         \E s \in save(file, data) :
           /\ file' = s.file
           /\ Return(Result("save", s.ok, s.err, data, "save"))
    /\ UNCHANGED <<env, jar, config, clock>>

\* a second passes.  Every call reads the clock at most once, so time that
\* passes during a call is time that passed before it.
Tick ==
    /\ pc = "idle"
    /\ clock < MaxClock
    /\ clock' = clock + 1
    /\ UNCHANGED <<env, jar, config, file, pc, attempt, last_error, csrf_token, headers, response,
                   cookies, cache_data, result, fileBefore, trace, log>>

Next ==
    \/ LoginBegin
    \/ LoginFetchCsrf
    \/ LoginAttach
    \/ LoginPost
    \/ LoginValidate
    \/ LoginHarvest
    \/ LoginSave
    \/ LoginReturn
    \/ Logout
    \/ LogoutWithToken
    \/ LogoutPost
    \/ ClearCache
    \/ UpdateCsrfToken
    \/ GetPage
    \/ DeleteAll
    \/ ClientLogout
    \/ ClientFresh
    \/ ClientFallback
    \/ SaveDirect
    \/ Tick

Spec == Init /\ [][Next]_vars

\* the calls of the engine alone: the caller never writes the file itself
NextEngine ==
    \/ LoginBegin
    \/ LoginFetchCsrf
    \/ LoginAttach
    \/ LoginPost
    \/ LoginValidate
    \/ LoginHarvest
    \/ LoginSave
    \/ LoginReturn
    \/ Logout
    \/ LogoutWithToken
    \/ LogoutPost
    \/ ClearCache
    \/ UpdateCsrfToken
    \/ GetPage
    \/ DeleteAll
    \/ ClientLogout
    \/ ClientFresh
    \/ ClientFallback
    \/ Tick

SpecEngine == Init /\ [][NextEngine]_vars

(***************************************************************************)
(* Vocabulary of the properties.                                           *)
(***************************************************************************)
\* the call op has returned and nothing was called since
Done(op) == pc = "idle" /\ result.op = op

\* positions of the events e in the trace
Events(e) == {i \in 1..Len(trace) : trace[i].e = e}

\* the part of the trace that belongs to the running retry loop: what
\* follows the extraction of the token (login, CekUnitClient::logout) or the
\* start of the fallback logout (CekUnitClient::logout); otherwise all of it
LoopTrace ==
    LET marks == Events("TOKEN") \cup Events("FALLBACK")
    IN  IF marks = {} THEN trace
        ELSE SubSeq(trace, (CHOOSE i \in marks : \A j \in marks : j <= i) + 1, Len(trace))

RECURSIVE SleepsOf(_)
SleepsOf(t) ==
    IF t = <<>> THEN <<>>
    ELSE IF Head(t).e = "SLEEP" THEN <<Head(t).ms>> \o SleepsOf(Tail(t))
    ELSE SleepsOf(Tail(t))

Requests(t) == {i \in 1..Len(t) : t[i].e \in {"GET", "POST"}}

\* the log is that of the login-page GET loop
InGetLoop == pc \in {"login_csrf", "login_attach"} \/ (pc = "idle" /\ result.step = "csrf")

IsNet(o) == o.net # "none"

Is4xx(o) == o.net = "none" /\ o.status >= 400 /\ o.status < 500

Is5xx(o) == o.net = "none" /\ o.status >= 500 /\ o.status < 600

Is2xx(o) == o.net = "none" /\ o.status >= 200 /\ o.status < 300

\* the file holds no session, or one with logged_in = false
NoLiveSession(f) == ~f.exists \/ (ParseOk(f) /\ ~f.logged_in)

\* the file holds a session with logged_in = false
Stale(f) == f.exists /\ ParseOk(f) /\ ~f.logged_in

\* logout or logout_with_token has returned after sending a POST
DoneLogoutPost ==
    pc = "idle" /\ result.op \in {"logout", "logout_with_token"} /\ log # <<>>

\* the answer o carries a status that execute_logout_request takes as success
IsLogoutSuccess(o) == o.net = "none" /\ (Is2xx(o) \/ o.status \in {302, 303})

\* an operation of a request builder has returned
DoneRequest == pc = "idle" /\ result.op \in Clients

C2_FailedLoginKeepsStore ==
    (Done("login") /\ ~result.ok
        /\ result.step \in {"validate", "csrf", "attach", "post", "body", "status"})
    => file = fileBefore

C2_Witness ==
    /\ Done("login") /\ ~result.ok /\ result.step = "status"
    /\ response.status = 419
    /\ fileBefore.exists /\ ParseOk(fileBefore) /\ fileBefore.logged_in
    /\ file = fileBefore

(***************************************************************************)
(* C3.                                                                     *)
(***************************************************************************)
\* C3: when login returns success, the session file parses to the returned
\* session, whose csrf_token is the token sent in every credentials POST and
\* whose logged_in is true.
C3_ReturnedIsStored ==
    (Done("login") /\ result.ok) =>
        /\ ParseOk(file)
        /\ Deserialize(file) = result.data
        /\ result.data.logged_in
        /\ Events("POST") # {}
        /\ \A i \in Events("POST") : trace[i].tok = result.data.csrf_token

C3_Witness ==
    /\ Done("login") /\ result.ok
    /\ Len(result.data.cookies) = 2
    /\ fileBefore.exists /\ fileBefore # file
    /\ result.data.csrf_token = T2

(***************************************************************************)
(* C4.                                                                     *)
(***************************************************************************)
\* C4: a retry loop (login-page GET, credentials POST, logout POST) whose
\* attempts all end in a network error makes exactly 3 attempts, sleeps 100 ms
\* and then 200 ms between them, and does not sleep after the last.
C4_RetryBound ==
    /\ Len(log) <= 3
    /\ (pc = "idle" /\ log # <<>> /\ \A i \in 1..Len(log) : IsNet(log[i])) =>
          /\ Len(log) = 3
          /\ Cardinality(Requests(LoopTrace)) = 3
          /\ SleepsOf(LoopTrace) = <<100, 200>>
          /\ trace[Len(trace)].e # "SLEEP"
          /\ ~result.ok

C4_Witness ==
    /\ Done("login") /\ result.step = "post"
    /\ Len(log) = 3 /\ \A i \in 1..3 : IsNet(log[i])
    /\ SleepsOf(LoopTrace) = <<100, 200>>

(***************************************************************************)
(* C5.                                                                     *)
(***************************************************************************)
\* C5: a credentials POST or logout POST answered with a 4xx status is the
\* last request of its loop: it is sent once, no retry and no sleep follow.
C5_No4xxRetry ==
    (~InGetLoop /\ log # <<>>) =>
        \A i \in 1..Len(log) :
            Is4xx(log[i]) =>
                /\ i = Len(log)
                /\ pc \notin {"login_post", "logout_post"}
                /\ Cardinality(Requests(LoopTrace)) = Len(log)
                /\ trace[Len(trace)].e = "POST"

C5_Witness ==
    /\ Done("login") /\ result.step = "status"
    /\ Len(log) = 1 /\ log[1].status = 422
    /\ Cardinality(Events("POST")) = 1
    /\ SleepsOf(LoopTrace) = <<>>

(***************************************************************************)
(* C6.                                                                     *)
(***************************************************************************)
\* C6 (as claimed): in the CSRF fetch a 2xx page without a token, or a 4xx
\* answer, is the last GET of login, which then fails; a GET is repeated only
\* after a network error (a body that cannot be read included) or a 5xx.
C6_CsrfFetchTerminal ==
    InGetLoop =>
        \A i \in 1..Len(log) :
            /\ (log[i].err.kind = "CsrfTokenNotFound" \/ Is4xx(log[i])) =>
                  (i = Len(log) /\ pc = "idle" /\ ~result.ok)
            /\ i < Len(log) =>
                  (IsNet(log[i]) \/ Is5xx(log[i]) \/ log[i].err.kind = "RequestFailed")

(***************************************************************************)
(* C7.                                                                     *)
(***************************************************************************)
\* C7 (as claimed): a credentials POST answered with a 3xx status whose body
\* can be read makes login succeed, unless saving the session fails.
C7_RedirectIsSuccess ==
    (Done("login") /\ result.step \in {"status", "return"}
        /\ response.status >= 300 /\ response.status < 400)
    => result.ok

(***************************************************************************)
(* C8.                                                                     *)
(***************************************************************************)
\* log is k answers 5xx followed by one readable 2xx answer
FailThenOk(k) ==
    /\ Len(log) = k + 1
    /\ \A i \in 1..k : Is5xx(log[i])
    /\ Is2xx(log[k + 1])
    /\ response.bodyOk

\* C8: when the credentials POST is answered with 5xx k times (k = 1, 2) and
\* then with 2xx, login succeeds (unless the save fails) after exactly k+1
\* POSTs that all carry the token of the one successful login-page GET, with
\* no GET in between, after sleeps of 100 ms and, for k = 2, 200 ms.
C8_RetryThenSuccess ==
    \A k \in {1, 2} :
        (Done("login") /\ ~InGetLoop /\ FailThenOk(k)) =>
            /\ result.ok \/ result.step = "save"
            /\ Cardinality(Events("POST")) = k + 1
            /\ Cardinality(Events("TOKEN")) = 1
            /\ \A i \in Events("POST") : \A j \in Events("TOKEN") :
                  trace[i].tok = trace[j].tok /\ trace[i].tok # <<>>
            /\ \A i \in Events("GET") : \A j \in Events("POST") : i < j
            /\ SleepsOf(LoopTrace) = (IF k = 1 THEN <<100>> ELSE <<100, 200>>)

C8_Witness ==
    /\ Done("login") /\ result.ok
    /\ FailThenOk(2)
    /\ SleepsOf(LoopTrace) = <<100, 200>>
    /\ Cardinality(Events("POST")) = 3

(***************************************************************************)
(* C9.                                                                     *)
(***************************************************************************)
\* C9 (as claimed): when all 3 credentials POSTs are answered with 5xx, login
\* returns a LoginFailed error that reports the status of the last answer.
C9_ServerErrorIsLoginFailed ==
    (Done("login") /\ result.step = "post"
        /\ Len(log) = 3 /\ \A i \in 1..Len(log) : Is5xx(log[i]))
    => (result.err.kind = "LoginFailed" /\ result.err.status = log[3].status)

(***************************************************************************)
(* C10.                                                                    *)
(***************************************************************************)
\* C10: in a login, every credentials POST comes after a login-page GET that
\* yielded a token; the session file is written only after the cookies of the
\* POST response were harvested; success is returned only after the save.
C10_LoginOrder ==
    result.op = "login" =>
        /\ \A i \in Events("POST") :
              \E j \in Events("TOKEN") :
                  j < i /\ trace[j].tok # <<>> /\ trace[j - 1].e = "GET"
        /\ \A i \in Events("HARVEST") : \E j \in Events("POST") : j < i
        /\ \A i \in Events("SAVE") : \E j \in Events("HARVEST") : j < i
        /\ (Events("SAVE") = {} /\ result.step # "save") => file = fileBefore
        /\ result.ok => Events("SAVE") # {}

C10_Witness ==
    /\ Done("login") /\ result.ok
    /\ Events("SAVE") # {}
    /\ file # fileBefore

(***************************************************************************)
(* C11.                                                                    *)
(***************************************************************************)
\* C11 (as claimed): whatever the session file held before, login never
\* fails in the step that attaches the cached cookies to the credentials
\* POST: it fails only in the credential check or on the server's answers
\* (or in the final save).
C11_AttachNeverFails ==
    Done("login") => result.step # "attach"

(***************************************************************************)
(* C12.                                                                    *)
(***************************************************************************)
\* C12 (as claimed): after a successful login every cookie held by the
\* transport, a cookie set only by the login-page GET response included, is
\* in the stored session with the value the transport holds.
C12_StoredHasTransportCookies ==
    (Done("login") /\ result.ok) =>
        \A n \in DOMAIN jar :
            \E i \in 1..Len(file.cookies) :
                file.cookies[i].name = n /\ file.cookies[i].value = jar[n]

(***************************************************************************)
(* C13.                                                                    *)
(***************************************************************************)
\* C13 (as claimed): after any sequence of login, logout, update_csrf_token
\* and clear calls, a stored session with logged_in = true has a non-empty
\* csrf_token, and so has every session a gate check handed out.
C13_TokenNonEmpty ==
    /\ (ParseOk(file) /\ file.logged_in) => file.csrf_token # <<>>
    /\ (DoneRequest /\ result.step \in {"headers", "request"}) =>
          result.data.csrf_token # <<>>

C15_ClientErrorKeepsSession ==
    (DoneLogoutPost /\ Is4xx(log[Len(log)])) =>
        /\ ~result.ok
        /\ result.err.kind = "LogoutFailed"
        /\ file = fileBefore
        /\ Events("CLEAR") = {}

C15_Witness ==
    /\ DoneLogoutPost /\ log[Len(log)].status = 419
    /\ result.err.kind = "LogoutFailed"
    /\ ParseOk(file) /\ file.logged_in /\ file = fileBefore

(***************************************************************************)
(* C16.                                                                    *)
(***************************************************************************)
\* C16: when every logout POST is answered with 5xx, logout sends exactly 3
\* POSTs, then returns an error, and the session file is what it was.
C16_ServerErrorsExhaust ==
    (DoneLogoutPost /\ \A i \in 1..Len(log) : Is5xx(log[i])) =>
        /\ Len(log) = 3
        /\ Cardinality(Events("POST")) = 3
        /\ ~result.ok
        /\ file = fileBefore

C16_Witness ==
    /\ DoneLogoutPost /\ Len(log) = 3 /\ \A i \in 1..3 : Is5xx(log[i])
    /\ result.err.kind = "LogoutFailed"
    /\ Cardinality(Events("POST")) = 3
    /\ ParseOk(file) /\ file.logged_in /\ file = fileBefore

(***************************************************************************)
(* C17.                                                                    *)
(***************************************************************************)
\* C17: when the logout POST is answered with a success status and deleting
\* the session file fails, logout still returns success.
C17_ClearFailureIgnored ==
    (DoneLogoutPost /\ IsLogoutSuccess(log[Len(log)]) /\ Events("CLEAR") = {}) =>
        result.ok

C17_Witness ==
    /\ DoneLogoutPost /\ result.ok
    /\ log[Len(log)].status = 200
    /\ Events("CLEAR") = {}
    /\ file.exists /\ file = fileBefore

(***************************************************************************)
(* C18.                                                                    *)
(***************************************************************************)
\* C18: a logout called when the store holds no session (LogoutClient::logout,
\* and CekUnitClient::logout with its fresh-token path through the dashboard
\* client) sends no HTTP request, at any point of the call.
C18_NoSessionNoRequest ==
    (result.op \in {"logout", "client_logout"} /\ ~fileBefore.exists) =>
        /\ Requests(trace) = {}
        /\ pc \notin {"client_fresh", "logout_post"}
        /\ pc = "idle" => (~result.ok /\ file = NoFile)

C18_Witness ==
    /\ pc = "idle" /\ result.op = "client_logout"
    /\ ~fileBefore.exists
    /\ result.err.kind = "NotAuthenticated"
    /\ trace = <<Ev("READ", <<>>, 0), Ev("FALLBACK", <<>>, 0)>>

(***************************************************************************)
(* C19.                                                                    *)
(***************************************************************************)
\* C19 (as claimed): for each of the five request builders, the gate check
\* on a stored session with logged_in = false returns NotAuthenticated with
\* the session file deleted (or the CacheError of a failed read or delete),
\* and on an absent session it returns NotAuthenticated.
C19_GateClearsStale ==
    DoneRequest =>
        /\ Stale(fileBefore) =>
              \/ result.err.kind = "NotAuthenticated" /\ file = NoFile
              \/ result.err.kind = "CacheError" /\ file = fileBefore
        /\ ~fileBefore.exists => result.err.kind = "NotAuthenticated"

(***************************************************************************)
(* C20.                                                                    *)
(***************************************************************************)
\* C20: an operation of a request builder called when the store has no
\* session, or one with logged_in = false, fails with NotAuthenticated (or
\* with the CacheError of a failed read or delete of an existing file), reads
\* the session file at most once and sends no HTTP request.
C20_GateSendsNothing ==
    (DoneRequest /\ NoLiveSession(fileBefore)) =>
        /\ ~result.ok
        /\ result.step = "gate"
        /\ result.err.kind \in {"NotAuthenticated", "CacheError"}
        /\ ~fileBefore.exists => result.err.kind = "NotAuthenticated"
        /\ Requests(trace) = {}
        /\ Cardinality(Events("READ")) <= 1

C20_Witness ==
    /\ DoneRequest /\ result.op = "pic"
    /\ Stale(fileBefore)
    /\ result.err.kind = "NotAuthenticated"
    /\ trace = <<Ev("READ", <<>>, 0)>>

(***************************************************************************)
(* C21.                                                                    *)
(***************************************************************************)
\* the positions of login
LoginPcs ==
    {"login_csrf", "login_attach", "login_post", "login_validate", "login_harvest",
     "login_save", "login_return"}

\* C21: only a call of login reaches the steps of login (the requests to the
\* login endpoint), and a session file that is absent stays absent in every
\* step of logout, the gate checks, the request builders, update_csrf_token
\* and clear: it comes into being only in the save of login or in a save the
\* caller makes itself.
C21_OnlyLoginCreatesSession ==
    [][/\ (pc' \in LoginPcs /\ pc \notin LoginPcs) => (pc = "idle" /\ result'.op = "login")
       /\ (~file.exists /\ file'.exists) => (pc = "login_save" \/ result'.op = "save")]_vars

C21_Witness ==
    /\ pc = "idle" /\ result.op = "update" /\ result.ok
    /\ ~fileBefore.exists /\ file = NoFile

(***************************************************************************)
(* The two parsers on their own: a response is drawn from a bounded set    *)
(* of documents, or of Set-Cookie values, and the parser is applied to it. *)
(***************************************************************************)
MaxNodes == 2

MaxChars == 4

RECURSIVE SeqsUpTo(_, _)
SeqsUpTo(S, n) ==
    IF n = 0 THEN {<<>>}
    ELSE SeqsUpTo(S, n - 1) \cup {Append(q, x) : q \in SeqsUpTo(S, n - 1), x \in S}

\* the elements a selector can match: any tag, the attribute absent, blank or a padded token
TokenNodes(tok) ==
    {Node(tag, a) : tag \in {"input", "meta"},
                    a \in {NoAttr, Attr(<<" ">>), Attr(<<" ">> \o tok \o <<" ">>)}}

TokenDocs ==
    [inputs : SeqsUpTo(TokenNodes(T1), MaxNodes), metas : SeqsUpTo(TokenNodes(T2), MaxNodes)]

CookieStrings == SeqsUpTo({"a", "=", ";", " "}, MaxChars)

InitCodec ==
    /\ config = [user_email |-> <<"a", "@", "b">>, user_password |-> <<"p", "w">>, base_url |-> BaseUrl]
    /\ file = NoFile
    /\ clock = 0
    /\ attempt = 0
    /\ last_error = NoError
    /\ csrf_token = <<>>
    /\ headers = EmptyMap
    /\ cookies = EmptyMap
    /\ cache_data = EmptyData
    /\ result = NoResult
    /\ fileBefore = NoFile
    /\ trace = <<>>
    /\ log = <<>>
    /\ jar = EmptyMap
    /\ env = GoodEnv
    /\ \/ /\ pc = "extract_csrf_token"
          /\ response \in {Resp("none", 200, TRUE, h, <<>>) : h \in TokenDocs}
       \/ /\ pc = "extract_cookies"
          /\ response \in {Resp("none", 200, TRUE, HtmlNone, <<v>>) : v \in CookieStrings}

\* extract_csrf_token(html)
ExtractToken ==
    /\ pc = "extract_csrf_token"
    /\ LET t == extract_csrf_token(response.html)
       IN  /\ csrf_token' = t.token
           /\ result' = Result("extract_csrf_token", t.ok, t.err, EmptyData, "return")
    /\ pc' = "idle"
    /\ UNCHANGED <<env, config, file, clock, attempt, last_error, headers, response, cookies,
                   cache_data, fileBefore, trace, log, jar>>

\* extract_cookies(headers)
ExtractCookies ==
    /\ pc = "extract_cookies"
    /\ cookies' = extract_cookies(response.set_cookie)
    /\ result' = Result("extract_cookies", TRUE, NoError, EmptyData, "return")
    /\ pc' = "idle"
    /\ UNCHANGED <<env, config, file, clock, attempt, last_error, csrf_token, headers, response,
                   cache_data, fileBefore, trace, log, jar>>

NextCodec ==
    \/ ExtractToken
    \/ ExtractCookies

SpecCodec == InitCodec /\ [][NextCodec]_vars

(***************************************************************************)
(* C29.                                                                    *)
(***************************************************************************)
\* the meta tags among the elements named csrf-token
RECURSIVE MetaTags(_)
MetaTags(nodes) ==
    IF nodes = <<>> THEN <<>>
    ELSE IF Head(nodes).tag = "meta" THEN <<Head(nodes)>> \o MetaTags(Tail(nodes))
    ELSE MetaTags(Tail(nodes))

\* the trimmed attribute of the first of the nodes, <<>> when there is none
FirstTrimmed(nodes) ==
    IF nodes = <<>> \/ ~Head(nodes).has THEN <<>> ELSE Trim(Head(nodes).v)

\* C29: extract_csrf_token returns the trimmed value of the first element
\* named _token when that is non-empty, whatever the meta tags hold; otherwise
\* the trimmed non-empty content of the first csrf-token meta tag; and it
\* fails with CsrfTokenNotFound when both are missing or empty.
C29_TokenPreference ==
    (pc = "idle" /\ result.op = "extract_csrf_token") =>
        LET byInput == FirstTrimmed(response.html.inputs)
            byMeta == FirstTrimmed(MetaTags(response.html.metas))
        IN  IF byInput # <<>> THEN result.ok /\ csrf_token = byInput
            ELSE IF byMeta # <<>> THEN result.ok /\ csrf_token = byMeta
            ELSE ~result.ok /\ result.err.kind = "CsrfTokenNotFound"

(***************************************************************************)
(* C30.                                                                    *)
(***************************************************************************)
\* C30: the name and value extract_cookies stores for a Set-Cookie value come
\* from the part before its first ';' alone, split once at '=', the value
\* empty when that part holds no '='; nothing behind the first ';' is in them.
C30_AttributesIgnored ==
    (pc = "idle" /\ result.op = "extract_cookies") =>
        LET pair == Before(response.set_cookie[1], ";")
            name == Trim(Before(pair, "="))
            value == IF IndexOf(pair, "=") = 0 THEN <<>> ELSE Trim(After(pair, "="))
        IN  IF name = <<>> THEN cookies = EmptyMap
            ELSE cookies = MapInsert(EmptyMap, name, value)

(***************************************************************************)
(* The CacheManager on its own: one caller saves, loads, updates and       *)
(* clears; fs::write is taken in its two steps (the file is created or     *)
(* truncated, then the document is written), the process may die between   *)
(* them, and another thread may load at any moment.                        *)
(***************************************************************************)
CookieOf(name, value) ==
    [name |-> name, value |-> value, domain |-> BaseUrl,
     path |-> "/", http_only |-> TRUE, secure |-> FALSE]

\* the cookie lists of the sessions saved: none, and two cookies in either order
CookieLists ==
    {<<>>,
     <<CookieOf(<<"s">>, <<"A">>), CookieOf(<<"t">>, <<"d">>)>>,
     <<CookieOf(<<"t">>, <<"d">>), CookieOf(<<"s">>, <<"A">>)>>}

\* CacheData values a caller can build
Sessions ==
    [cookies : CookieLists, csrf_token : {<<>>, T1}, logged_in : BOOLEAN,
     timestamp : 0..MaxClock]

\* max_age_seconds arguments of load_fresh
MaxAges == 0..(MaxClock + 1)

InitStore ==
    /\ Init
    /\ config = [user_email |-> <<"a", "@", "b">>, user_password |-> <<"p", "w">>, base_url |-> BaseUrl]

\* CacheManager::save, first half: fs::write creates or truncates the file
SaveOpen ==
    /\ Begin
    /\ csrf_token' = <<>>
    /\ headers' = EmptyMap
    /\ \E data \in Sessions :
         /\ cache_data' = data
         /\ \/ /\ file' = Truncated
               /\ pc' = "save_write"
               /\ result' = Running("save")
            \/ /\ file' = file
               /\ Return(Result("save", FALSE, Err("CacheError", "Failed to write cache", 0),
                                data, "save"))
    /\ UNCHANGED <<env, jar, config, clock>>

\* a write that keeps the cookies of the record it replaces
SaveWrite_merging ==
    /\ pc = "save_write"
    /\ file' = Serialize([cache_data EXCEPT !.cookies = fileBefore.cookies \o cache_data.cookies])
    /\ Return(Result("save", TRUE, NoError, cache_data, "save"))
    /\ trace' = Append(trace, Ev("SAVE", <<>>, 0))
    /\ UNCHANGED <<env, jar, config, clock, attempt, last_error, csrf_token, headers, response,
                   cookies, cache_data, fileBefore, log>>

\* CacheManager::save, second half: the document is written, or the write fails
SaveWrite ==
    /\ pc = "save_write"
    /\ \/ /\ file' = Serialize(cache_data)
          /\ Return(Result("save", TRUE, NoError, cache_data, "save"))
       \/ /\ file' = file
          /\ Return(Result("save", FALSE, Err("CacheError", "Failed to write cache", 0),
                           cache_data, "save"))
    /\ trace' = Append(trace, Ev("SAVE", <<>>, 0))
    /\ UNCHANGED <<env, jar, config, clock, attempt, last_error, csrf_token, headers, response,
                   cookies, cache_data, fileBefore, log>>

\* the process dies inside fs::write; the file stays as the write left it
SaveCrash ==
    /\ pc = "save_write"
    /\ Return(Result("save", FALSE, NoError, cache_data, "crash"))
    /\ cache_data' = EmptyData
    /\ UNCHANGED <<env, jar, config, clock, file, attempt, last_error, csrf_token, headers, response,
                   cookies, fileBefore, trace, log>>

\* CacheManager::load, by the caller or by another thread while a save runs
Load ==
    /\ \E l \in load(file) :
         result' = Result("load", l.ok, l.err, l.data,
                          IF ~l.ok THEN "error" ELSE IF l.some THEN "some" ELSE "none")
    /\ trace' = <<Ev("READ", <<>>, 0)>>
    /\ UNCHANGED <<env, jar, config, clock, file, pc, attempt, last_error, csrf_token, headers,
                   response, cookies, cache_data, fileBefore, log>>

\* CacheManager::load_fresh(max_age_seconds)
LoadFresh ==
    /\ Enter
    /\ NoLocals
    /\ \E max_age_seconds \in MaxAges :
         \E l \in load(file) :
           IF ~l.ok
           THEN /\ trace' = <<Ev("LOAD_FRESH", <<>>, max_age_seconds)>>
                /\ Return(Result("load_fresh", FALSE, l.err, EmptyData, "error"))
           ELSE IF l.some
           THEN /\ trace' = <<Ev("LOAD_FRESH", <<>>, max_age_seconds), Ev("NOW", <<>>, clock)>>
                /\ IF is_fresh(l.data, max_age_seconds, clock)
                   THEN Return(Result("load_fresh", TRUE, NoError, l.data, "some"))
                   ELSE Return(Result("load_fresh", TRUE, NoError, EmptyData, "none"))
           ELSE /\ trace' = <<Ev("LOAD_FRESH", <<>>, max_age_seconds)>>
                /\ Return(Result("load_fresh", TRUE, NoError, EmptyData, "none"))
    /\ UNCHANGED <<env, jar, config, clock, file>>

NextStore ==
    \/ SaveOpen
    \/ SaveWrite
    \/ SaveCrash
    \/ Load
    \/ LoadFresh
    \/ UpdateCsrfToken
    \/ ClearCache
    \/ Tick

SpecStore == InitStore /\ [][NextStore]_vars

(***************************************************************************)
(* C22.                                                                    *)
(***************************************************************************)
\* C22: when the process dies during save, the session file afterwards is
\* what it was before the save or the complete new document, never an empty,
\* truncated or otherwise unreadable file.
C22_CrashKeepsWholeFile ==
    (pc = "idle" /\ result.step = "crash") =>
        (file = fileBefore \/ file = Serialize(result.data))

(***************************************************************************)
(* C23.                                                                    *)
(***************************************************************************)
\* C23: a load that runs while a save is under way returns none or a whole
\* session, never a parse error, and once the saves have finished the file
\* holds the session of the save that finished last.
C23_ConcurrentLoadsWhole ==
    /\ (pc = "save_write" /\ result.op = "load") => result.err.kind # "JsonError"
    /\ (pc = "idle" /\ result.op = "save" /\ result.ok) => file = Serialize(result.data)

C25_UpdateFrame ==
    (pc = "idle" /\ result.op = "update") =>
        /\ (fileBefore.exists /\ result.ok) =>
               file = Serialize([Deserialize(fileBefore) EXCEPT !.csrf_token = trace[1].tok,
                                                               !.timestamp = trace[1].ms])
        /\ ~fileBefore.exists => (result.ok /\ file = NoFile)

C25_Witness ==
    /\ pc = "idle" /\ result.op = "update" /\ result.ok
    /\ fileBefore.exists /\ ~fileBefore.logged_in /\ Len(fileBefore.cookies) = 2
    /\ fileBefore.csrf_token = <<>> /\ file.csrf_token = T2
    /\ fileBefore.timestamp = 0 /\ file.timestamp = 1

(***************************************************************************)
(* C26.                                                                    *)
(***************************************************************************)
\* C26: a load_fresh(max_age) that succeeds returns the stored session when
\* there is one and now - timestamp < max_age, and none otherwise (no file,
\* or now - timestamp >= max_age, an age equal to max_age included); the file
\* is never changed by it.
C26_LoadFreshBoundary ==
    (pc = "idle" /\ result.op = "load_fresh") =>
        /\ file = fileBefore
        /\ result.ok =>
              IF fileBefore.exists /\ trace[2].ms - fileBefore.timestamp < trace[1].ms
              THEN result.step = "some" /\ result.data = Deserialize(fileBefore)
              ELSE result.step = "none"

C26_Witness ==
    /\ pc = "idle" /\ result.op = "load_fresh" /\ result.ok /\ result.step = "none"
    /\ fileBefore.exists /\ trace[1].ms = 1
    /\ trace[2].ms - fileBefore.timestamp = trace[1].ms

(***************************************************************************)
(* C27.                                                                    *)
(***************************************************************************)
\* C27: clear succeeds when there is no file, and a clear that succeeds
\* leaves no file; load then returns none, and a second clear succeeds and
\* leaves the same state.  A clear that fails leaves the file as it was.
C27_ClearIdempotent ==
    (pc = "idle" /\ result.op = "clear") =>
        /\ ~fileBefore.exists => result.ok
        /\ result.ok =>
              /\ file = NoFile
              /\ load(file) = {LoadResult(TRUE, NoError, FALSE, EmptyData)}
              /\ clear(file) = {IoResult(TRUE, NoError, file)}
        /\ ~result.ok => file = fileBefore

C27_Witness ==
    /\ pc = "idle" /\ result.op = "clear" /\ result.ok
    /\ fileBefore.exists /\ ParseOk(fileBefore) /\ fileBefore.logged_in
    /\ file = NoFile

MaxOther == 2

InitEnv ==
    /\ env \in EnvsWithin(MaxOther)
    /\ config = NoConfig
    /\ file = NoFile
    /\ clock = 0
    /\ pc = "load_env"
    /\ attempt = 0
    /\ last_error = NoError
    /\ csrf_token = <<>>
    /\ headers = EmptyMap
    /\ response = NoResponse
    /\ cookies = EmptyMap
    /\ cache_data = EmptyData
    /\ result = NoResult
    /\ fileBefore = NoFile
    /\ trace = <<>>
    /\ log = <<>>
    /\ jar = EmptyMap

\* EnvConfig::load()
EnvLoad ==
    /\ pc = "load_env"
    /\ config' = EnvConfig_load(env).config
    /\ result' = Result("load_env", EnvConfig_load(env).ok, EnvConfig_load(env).err,
                        EmptyData, "return")
    /\ pc' = "idle"
    /\ UNCHANGED <<env, jar, file, clock, attempt, last_error, csrf_token, headers, response,
                   cookies, cache_data, fileBefore, trace, log>>

NextEnv == EnvLoad

SpecEnv == InitEnv /\ [][NextEnv]_vars

(***************************************************************************)
(* C31.                                                                    *)
(***************************************************************************)
\* the variable of position i is not set, blank, or (BASE_URL) lacks the scheme
Rejected(i) ==
    \/ ~env[VarNames[i]].set
    \/ Trim(env[VarNames[i]].v) = <<>>
    \/ (VarNames[i] = "BASE_URL"
          /\ ~StartsWith(Trim(env[VarNames[i]].v), HttpScheme)
          /\ ~StartsWith(Trim(env[VarNames[i]].v), HttpsScheme))

\* C31: EnvConfig::load reports the first variable, in declaration order,
\* that is not set (NotFound), empty after trimming (Empty) or, for BASE_URL,
\* without http:// or https:// at its start (InvalidUrl), with that
\* variable's name; with no such variable it reports none of these three.
C31_FirstFailureReported ==
    (pc = "idle" /\ result.op = "load_env") =>
        IF \E i \in 1..Len(VarNames) : Rejected(i)
        THEN LET i == CHOOSE j \in 1..Len(VarNames) :
                          Rejected(j) /\ \A k \in 1..(j - 1) : ~Rejected(k)
             IN  /\ ~result.ok
                 /\ result.err.msg = VarNames[i]
                 /\ result.err.kind = IF ~env[VarNames[i]].set THEN "NotFound"
                                      ELSE IF Trim(env[VarNames[i]].v) = <<>> THEN "Empty"
                                      ELSE "InvalidUrl"
        ELSE result.err.kind \notin {"NotFound", "Empty", "InvalidUrl"}

C31_Witness ==
    /\ pc = "idle" /\ result.op = "load_env"
    /\ result.err = Err("InvalidUrl", "BASE_URL", 0)
    /\ ~env["PIC_ENDPOINT"].set

(***************************************************************************)
(* C32.                                                                    *)
(***************************************************************************)
\* C32: with USER_EMAIL, USER_PASSWORD, BASE_URL and the endpoint variables
\* from LOGIN_ENDPOINT through PIC_ITEM_ENDPOINT set to non-empty values and
\* a password of fewer than 8 characters, EnvConfig::load returns Invalid
\* (BASE_URL is taken to carry a scheme load accepts).
C32_ShortPasswordInvalid ==
    (/\ pc = "idle" /\ result.op = "load_env"
     /\ \A i \in 1..17 : env[VarNames[i]].set /\ Trim(env[VarNames[i]].v) # <<>>
     /\ StartsWith(Trim(env["BASE_URL"].v), HttpScheme)
          \/ StartsWith(Trim(env["BASE_URL"].v), HttpsScheme)
     /\ Len(Trim(env["USER_PASSWORD"].v)) < 8)
        => (~result.ok /\ result.err.kind = "Invalid")

(***************************************************************************)
(* C33.                                                                    *)
(***************************************************************************)
\* the e-mail and the password of the configuration
Credentials == {config.user_email, config.user_password} \ {<<>>}

\* the strings of a session document that the server or the caller supplied
FileStrings(f) ==
    {f.csrf_token} \cup {f.cookies[i].name : i \in 1..Len(f.cookies)}
                   \cup {f.cookies[i].value : i \in 1..Len(f.cookies)}

\* C33: a session file written by the library holds the four fields cookies,
\* csrf_token, logged_in and timestamp and nothing else, each cookie its
\* name, value, the base URL as domain, path and two flags; neither the
\* e-mail nor the password of the configuration is among its strings.
C33_NoCredentialsOnDisk ==
    (file.exists /\ file.syntax) =>
        /\ file.keys = <<"cookies", "csrf_token", "logged_in", "timestamp">>
        /\ FileStrings(file) \cap Credentials = {}
        /\ \A i \in 1..Len(file.cookies) :
              /\ DOMAIN file.cookies[i] = {"name", "value", "domain", "path", "http_only", "secure"}
              /\ file.cookies[i].domain = config.base_url

C33_Witness ==
    /\ pc = "idle" /\ result.op = "login" /\ result.ok
    /\ Credentials = {<<"a", "@", "b">>, <<"p", "w">>}
    /\ Len(file.cookies) = 2 /\ file.csrf_token = T1
    /\ file = Serialize(result.data)

(***************************************************************************)
(* C34.                                                                    *)
(***************************************************************************)
\* C34: when the three attempts of a retry loop all fail with a network
\* error or a 5xx answer, the call fails with the error captured on the
\* third attempt, whatever the first two were.
C34_LastErrorSurfaces ==
    (/\ pc = "idle" /\ Len(log) = MAX_RETRIES
     /\ \A i \in 1..Len(log) : IsNet(log[i]) \/ Is5xx(log[i]))
        => (~result.ok /\ result.err = log[MAX_RETRIES].err)

C34_Witness ==
    /\ pc = "idle" /\ result.op = "login" /\ result.step = "post"
    /\ Len(log) = MAX_RETRIES
    /\ IsNet(log[1]) /\ Is5xx(log[2]) /\ Is5xx(log[3])
    /\ log[1].err # log[3].err
    /\ result.err = log[3].err

(***************************************************************************)
(* C35.                                                                    *)
(***************************************************************************)
\* C35: a call of CekUnitClient::logout sends at most one dashboard GET and at
\* most 6 logout POSTs.  The POSTs of its first logout carry the token read
\* from the dashboard; when no token was obtained, or that logout failed (a
\* 4xx answer included), a second logout follows whose POSTs carry the cached
\* token.  The call returns success exactly when the last POST was answered
\* with a success status, and an error only from the second logout.
C35_FreshThenCached ==
    (pc = "idle" /\ result.op = "client_logout") =>
        /\ Cardinality(Events("GET")) <= 1
        /\ Cardinality(Events("POST")) <= 2 * MAX_RETRIES
        /\ Cardinality(Events("FALLBACK")) <= 1
        /\ Events("TOKEN") = {} => Events("FALLBACK") # {}
        /\ Events("FALLBACK") = {} => result.ok
        /\ \A i \in Events("POST") :
              IF \E j \in Events("FALLBACK") : j < i
              THEN trace[i].tok = fileBefore.csrf_token
              ELSE \E j \in Events("TOKEN") : j < i /\ trace[i].tok = trace[j].tok
        /\ result.ok <=> (log # <<>> /\ IsLogoutSuccess(log[Len(log)]))

C35_Witness ==
    /\ pc = "idle" /\ result.op = "client_logout" /\ result.ok
    /\ \E j \in Events("FALLBACK") :
          /\ Cardinality({i \in Events("POST") : i < j}) = 1
          /\ Cardinality({i \in Events("POST") : i > j}) = MAX_RETRIES
    /\ file = NoFile

(***************************************************************************)
(* LoginClient::login on its own, on configurations handed to with_config  *)
(* by the caller: the e-mail may lack its '@'.                             *)
(***************************************************************************)
InitLogin ==
    /\ config \in [user_email : Emails \cup {<<"a", "b">>}, user_password : Passwords,
                   base_url : {BaseUrl}]
    /\ file = NoFile
    /\ clock = 0
    /\ pc = "idle"
    /\ attempt = 0
    /\ last_error = NoError
    /\ csrf_token = <<>>
    /\ headers = EmptyMap
    /\ response = NoResponse
    /\ cookies = EmptyMap
    /\ cache_data = EmptyData
    /\ result = NoResult
    /\ fileBefore = NoFile
    /\ trace = <<>>
    /\ log = <<>>
    /\ jar = EmptyMap
    /\ env = GoodEnv

NextLogin ==
    \/ LoginBegin
    \/ LoginFetchCsrf
    \/ LoginAttach
    \/ LoginPost
    \/ LoginValidate
    \/ LoginHarvest
    \/ LoginSave
    \/ LoginReturn

SpecLogin == InitLogin /\ [][NextLogin]_vars

(***************************************************************************)
(* C36.                                                                    *)
(***************************************************************************)
\* C36: a login with an empty e-mail or an empty password has failed with
\* LoginFailed without a request sent and without touching the file; a login
\* with both non-empty, the e-mail without '@' included, is at its CSRF fetch
\* or has sent the GET of that fetch.
C36_EmptyCredentialsRejected ==
    /\ (Done("login") /\ (config.user_email = <<>> \/ config.user_password = <<>>)) =>
          /\ ~result.ok
          /\ result.err.kind = "LoginFailed"
          /\ trace = <<>>
          /\ file = fileBefore
    /\ (result.op = "login" /\ config.user_email # <<>> /\ config.user_password # <<>>) =>
          \/ pc = "login_csrf" /\ trace = <<>>
          \/ Events("GET") # {}

C36_Witness ==
    /\ Done("login") /\ result.ok
    /\ config.user_email = <<"a", "b">>
    /\ Events("GET") # {} /\ Events("POST") # {}

(***************************************************************************)
(* C37.                                                                    *)
(***************************************************************************)
\* a stored session that parses and is marked logged out
Unflagged(f) == f.exists /\ ParseOk(f) /\ ~f.logged_in

\* C37: a step that writes a session marked logged_in = false is the caller's
\* own save, or an update_csrf_token of a session that was already so marked;
\* the session login saves is marked logged_in = true, and update_csrf_token
\* leaves the mark as it was.
C37_NoUnflaggedWrite ==
    [][/\ (file' # file /\ Unflagged(file')) =>
             \/ result'.op = "save"
             \/ result'.op = "update" /\ Unflagged(file)
       /\ (pc = "login_save" /\ file' # file /\ ParseOk(file')) => file'.logged_in
       /\ (result'.op = "update" /\ file' # file /\ ParseOk(file') /\ ParseOk(file)) =>
             file'.logged_in = file.logged_in]_vars

C37_Witness ==
    /\ Done("update") /\ result.ok
    /\ Unflagged(fileBefore) /\ Unflagged(file)
    /\ file # fileBefore

(***************************************************************************)
(* C38.                                                                    *)
(***************************************************************************)
\* C38: when a request of DashboardClient, PicClient, InputUserClient or
\* InputDataClient has returned, whatever was answered, the session file is
\* what it was when the call began, and nothing cleared or saved it.
C38_RequestsLeaveStore ==
    (pc = "idle" /\ result.op \in {"dashboard", "pic", "input_user", "input_data", "delete_all"}) =>
        /\ file = fileBefore
        /\ Events("CLEAR") = {} /\ Events("SAVE") = {}

C38_Witness ==
    /\ Done("delete_all") /\ ~result.ok
    /\ result.err = Err("RequestFailed", "HTTP", 419)
    /\ Events("POST") # {}
    /\ ParseOk(file) /\ file.logged_in /\ file = fileBefore

(***************************************************************************)
(* A logout beside a second client of the same session file: the other     *)
(* client's login reaches its save while the logout is between its load    *)
(* and its clear.                                                          *)
(***************************************************************************)
\* the save that ends another client's login (build_cache_data, then
\* cache_manager.save), at most once during a logout
PeerSave ==
    /\ pc = "logout_post"
    /\ Events("SAVE") = {}
    /\ \E token \in Tokens :
         \E s \in save(file, build_cache_data([n \in {<<"s">>} |-> <<"B">>], <<<<"s">>>>,
                                              token, clock, config)) :
           /\ file' = s.file
           /\ trace' = IF s.ok THEN Append(trace, Ev("SAVE", token, clock)) ELSE trace
    /\ UNCHANGED <<env, jar, config, clock, pc, attempt, last_error, csrf_token, headers,
                   response, cookies, cache_data, result, fileBefore, log>>

NextPeer ==
    \/ LoginBegin
    \/ LoginFetchCsrf
    \/ LoginAttach
    \/ LoginPost
    \/ LoginValidate
    \/ LoginHarvest
    \/ LoginSave
    \/ LoginReturn
    \/ Logout
    \/ LogoutPost
    \/ PeerSave

SpecPeer == Init /\ [][NextPeer]_vars

(***************************************************************************)
(* C39.                                                                    *)
(***************************************************************************)
\* C39: when a logout has returned and another client's login saved a session
\* after the logout had loaded its own, the file holds the session that login
\* saved.
C39_PeerSessionSurvives ==
    (Done("logout") /\ Events("SAVE") # {}) =>
        \A i \in Events("SAVE") :
            file = Serialize(build_cache_data([n \in {<<"s">>} |-> <<"B">>], <<<<"s">>>>,
                                              trace[i].tok, trace[i].ms, config))

====
